---- MODULE Spec2Model ----
(***************************************************************************)
(* Model of the transaction engine (src/src/engine.rs, src/src/types.rs).  *)
(*                                                                         *)
(* Monetary amounts are rust_decimal values; the model represents a        *)
(* Decimal by the integer number of 1/10000 units it denotes, so that      *)
(* +, - and >= on Decimals are +, - and >= on integers.                    *)
(***************************************************************************)
EXTENDS Integers, Sequences, FiniteSets, TLC

VARIABLES
    accounts,    \* Engine.accounts : HashMap<u16, Account>
    history,     \* Engine.history  : HashMap<u32, (TransactionInfo, Decimal)>
    phase,       \* "open" while the Engine value exists, "exported" once get_accounts consumed it
    exported,    \* the Vec<Account> returned by get_accounts (<<>> before)
    steps,       \* number of add_transaction calls made so far
    last,        \* log of the last add_transaction call: the transaction (log::info!)
                 \* and whether a "Successfull ..." line (log::debug!) was emitted
    seen,        \* history variable: client ids in the order their accounts were inserted
    disputeSnap, \* history variable: per tx_id, the disputing account's balances
                 \* right before the latest successful Dispute, and the disputed amount
    depositor,   \* history variable: per tx_id with a history record, the client_id
                 \* of the Deposit that recorded it (0 without a record)
    input,       \* main: the records of the csv file, in file order
    pos,         \* file_input task: index of the next record the reader yields
    producer,    \* file_input task: "idle" (not spawned), "running" or "done"
    channel,     \* the mpsc channel: transactions sent and not yet received
    sent,        \* history variable: the transactions send() accepted, in order
    applied,     \* history variable: the transactions passed to add_transaction, in order
    value,       \* serialize_decimal: the Decimal to render, as mantissa and scale
    rendered     \* serialize_decimal: the string handed to the serializer

engineVars == <<accounts, history, phase, exported, steps, last, seen, disputeSnap, depositor>>

pipeVars == <<input, pos, producer, channel, sent, applied>>

renderVars == <<value, rendered>>

vars == <<engineVars, pipeVars, renderVars>>

\* No Decimal is being rendered.
NoDecimal == [m |-> 0, scale |-> 0]
\* Nothing has been rendered yet.
NoRender == [neg |-> FALSE, int |-> 0, frac |-> <<>>]

----------------------------------------------------------------------------
(* Bounds of the model *)

MaxClient == 2
MaxTx == 1
MaxAmount == 1
MaxSteps == 4
\* Stand-in for Decimal::MAX (2^96 - 1 at scale 0): far above every balance
\* the amounts in Amounts can add up to within MaxSteps calls.
DecimalMax == 1000

Clients == 1..MaxClient
TxIds == 1..MaxTx
\* Decimal amounts carried by Deposit/Withdrawal.
Amounts == 1..MaxAmount
\* Nothing in the engine or in deserialize_transaction_type rejects a zero or
\* a negative amount.
SignedAmounts == {-1, 0} \cup Amounts
\* Amounts that include the largest representable Decimal.
LargeAmounts == Amounts \cup {DecimalMax}

----------------------------------------------------------------------------
(* Data model *)

TransactionType == {"Deposit", "Withdrawal", "Dispute", "Resolve", "Chargeback"}

\* The Transaction values whose Deposit/Withdrawal amounts are in amts (the
\* other three kinds carry no amount; the field is 0 for them).
TransactionOver(amts) ==
    [client_id : Clients, tx_id : TxIds, tx_type : {"Deposit", "Withdrawal"}, amount : amts]
    \cup
    [client_id : Clients, tx_id : TxIds, tx_type : {"Dispute", "Resolve", "Chargeback"}, amount : {0}]

Transaction == TransactionOver(Amounts)

SignedTransaction == TransactionOver(SignedAmounts)

LargeTransaction == TransactionOver(LargeAmounts)

TransactionInfo == {"Regular", "UnderDispute"}

AccountNew(client_id) ==
    [client_id |-> client_id, available |-> 0, held |-> 0, total |-> 0, locked |-> FALSE]

EngineNew == [accounts |-> <<>>, history |-> <<>>]

NoTx == [client_id |-> 0, tx_id |-> 0, tx_type |-> "None", amount |-> 0]
NoLog == [tx |-> NoTx, ok |-> FALSE]
NoSnap == [state |-> "none", client_id |-> 0, available |-> 0, held |-> 0, amount |-> 0]

----------------------------------------------------------------------------
(* Engine::add_transaction *)

\* self.accounts.entry(tx.client_id).or_insert(Account::new(tx.client_id))
EntryOrInsert(accs, client_id) ==
    IF client_id \in DOMAIN accs THEN accs ELSE accs @@ (client_id :> AccountNew(client_id))

\* HashMap::insert
MapInsert(m, k, v) == [x \in DOMAIN m \cup {k} |-> IF x = k THEN v ELSE m[x]]

\* HashMap::remove
MapRemove(m, k) == [x \in DOMAIN m \ {k} |-> m[x]]

\* Mutant: a locked account refuses the deposit.
DepositArm_LockedGate(account, hist, tx) ==
    IF account.locked
    THEN [account |-> account, history |-> hist, ok |-> FALSE]
    ELSE [account |-> [account EXCEPT !.available = @ + tx.amount],
          history |-> MapInsert(hist, tx.tx_id, [info |-> "Regular", amount |-> tx.amount]),
          ok      |-> TRUE]

DepositArm(account, hist, tx) ==
    [account |-> [account EXCEPT !.available = @ + tx.amount],
     history |-> MapInsert(hist, tx.tx_id, [info |-> "Regular", amount |-> tx.amount]),
     ok      |-> TRUE]

\* Mutant: the withdrawal is made without the sufficiency check.
WithdrawalArm_Unchecked(account, hist, tx) ==
    [account |-> [account EXCEPT !.available = @ - tx.amount],
     history |-> hist, ok |-> TRUE]

WithdrawalArm(account, hist, tx) ==
    IF account.available >= tx.amount
    THEN [account |-> [account EXCEPT !.available = @ - tx.amount],
          history |-> hist, ok |-> TRUE]
    ELSE [account |-> account, history |-> hist, ok |-> FALSE]

\* Mutant: the dispute holds the funds without the sufficiency check.
DisputeArm_Unchecked(account, hist, tx) ==
    IF tx.tx_id \in DOMAIN hist /\ hist[tx.tx_id].info = "Regular"
    THEN LET amount == hist[tx.tx_id].amount IN
         [account |-> [account EXCEPT !.available = @ - amount, !.held = @ + amount],
          history |-> MapInsert(hist, tx.tx_id,
                                [info |-> "UnderDispute", amount |-> amount]),
          ok      |-> TRUE]
    ELSE [account |-> account, history |-> hist, ok |-> FALSE]

DisputeArm(account, hist, tx) ==
    IF tx.tx_id \in DOMAIN hist /\ hist[tx.tx_id].info = "Regular"
    THEN LET amount == hist[tx.tx_id].amount IN
         IF account.available >= amount
         THEN [account |-> [account EXCEPT !.available = @ - amount, !.held = @ + amount],
               history |-> MapInsert(hist, tx.tx_id,
                                     [info |-> "UnderDispute", amount |-> amount]),
               ok      |-> TRUE]
         ELSE [account |-> account, history |-> hist, ok |-> FALSE]
    ELSE [account |-> account, history |-> hist, ok |-> FALSE]

\* Mutant: the resolve drops the hold without releasing the funds to available.
ResolveArm_NoRelease(account, hist, tx) ==
    IF tx.tx_id \in DOMAIN hist /\ hist[tx.tx_id].info = "UnderDispute"
    THEN LET amount == hist[tx.tx_id].amount IN
         [account |-> [account EXCEPT !.held = @ - amount],
          history |-> MapRemove(hist, tx.tx_id),
          ok      |-> TRUE]
    ELSE [account |-> account, history |-> hist, ok |-> FALSE]

\* Mutant: the resolve accepts a record in any state.
ResolveArm_AnyRecord(account, hist, tx) ==
    IF tx.tx_id \in DOMAIN hist
    THEN LET amount == hist[tx.tx_id].amount IN
         [account |-> [account EXCEPT !.available = @ + amount, !.held = @ - amount],
          history |-> MapRemove(hist, tx.tx_id),
          ok      |-> TRUE]
    ELSE [account |-> account, history |-> hist, ok |-> FALSE]

\* Mutant: the resolve locks the account as the chargeback does.
ResolveArm_Locks(account, hist, tx) ==
    IF tx.tx_id \in DOMAIN hist /\ hist[tx.tx_id].info = "UnderDispute"
    THEN LET amount == hist[tx.tx_id].amount IN
         [account |-> [account EXCEPT !.available = @ + amount, !.held = @ - amount,
                                      !.locked = TRUE],
          history |-> MapRemove(hist, tx.tx_id),
          ok      |-> TRUE]
    ELSE [account |-> account, history |-> hist, ok |-> FALSE]

ResolveArm(account, hist, tx) ==
    IF tx.tx_id \in DOMAIN hist /\ hist[tx.tx_id].info = "UnderDispute"
    THEN LET amount == hist[tx.tx_id].amount IN
         [account |-> [account EXCEPT !.available = @ + amount, !.held = @ - amount],
          history |-> MapRemove(hist, tx.tx_id),
          ok      |-> TRUE]
    ELSE [account |-> account, history |-> hist, ok |-> FALSE]

\* Mutant: the chargeback releases the held funds to available as the resolve does.
ChargebackArm_Refunds(account, hist, tx) ==
    IF tx.tx_id \in DOMAIN hist /\ hist[tx.tx_id].info = "UnderDispute"
    THEN LET amount == hist[tx.tx_id].amount IN
         [account |-> [account EXCEPT !.available = @ + amount, !.held = @ - amount,
                                      !.locked = TRUE],
          history |-> MapRemove(hist, tx.tx_id),
          ok      |-> TRUE]
    ELSE [account |-> account, history |-> hist, ok |-> FALSE]

\* Mutant: the chargeback locks the account before looking the record up.
ChargebackArm_LocksFirst(account, hist, tx) ==
    IF tx.tx_id \in DOMAIN hist /\ hist[tx.tx_id].info = "UnderDispute"
    THEN LET amount == hist[tx.tx_id].amount IN
         [account |-> [account EXCEPT !.held = @ - amount, !.locked = TRUE],
          history |-> MapRemove(hist, tx.tx_id),
          ok      |-> TRUE]
    ELSE [account |-> [account EXCEPT !.locked = TRUE], history |-> hist, ok |-> FALSE]

ChargebackArm(account, hist, tx) ==
    IF tx.tx_id \in DOMAIN hist /\ hist[tx.tx_id].info = "UnderDispute"
    THEN LET amount == hist[tx.tx_id].amount IN
         [account |-> [account EXCEPT !.held = @ - amount, !.locked = TRUE],
          history |-> MapRemove(hist, tx.tx_id),
          ok      |-> TRUE]
    ELSE [account |-> account, history |-> hist, ok |-> FALSE]

\* Mutant: total is left as it was.
RecomputeTotal_Skipped(account) == account

\* account.total = account.available + account.held
RecomputeTotal(account) ==
    [account EXCEPT !.total = account.available + account.held]

\* rust_decimal's +, -, += and -= panic ("Addition overflowed", "Subtraction
\* overflowed") when the result is not representable.
Representable(x) == -DecimalMax <= x /\ x <= DecimalMax

\* Some arithmetic of the call on this account overflowed. Every arm adds or
\* subtracts at most once per field, so the results tell.
Overflowed(account) ==
    \/ ~Representable(account.available)
    \/ ~Representable(account.held)
    \/ ~Representable(account.available + account.held)

\* Mutant: the arm's outcome is written to every account of the map.
ApplyTransaction_AllAccounts(accs, hist, tx) ==
    LET accs1   == EntryOrInsert(accs, tx.client_id)
        account == accs1[tx.client_id]
        r == CASE tx.tx_type = "Deposit"    -> DepositArm(account, hist, tx)
               [] tx.tx_type = "Withdrawal" -> WithdrawalArm(account, hist, tx)
               [] tx.tx_type = "Dispute"    -> DisputeArm(account, hist, tx)
               [] tx.tx_type = "Resolve"    -> ResolveArm(account, hist, tx)
               [] tx.tx_type = "Chargeback" -> ChargebackArm(account, hist, tx)
    IN  [accounts |-> [c \in DOMAIN accs1 |->
                          RecomputeTotal([r.account EXCEPT !.client_id = c])],
         history  |-> r.history,
         ok       |-> r.ok,
         panic    |-> Overflowed(r.account)]

\* The whole body of add_transaction as a function of the engine's two maps.
ApplyTransaction(accs, hist, tx) ==
    LET accs1   == EntryOrInsert(accs, tx.client_id)
        account == accs1[tx.client_id]
        r == CASE tx.tx_type = "Deposit"    -> DepositArm(account, hist, tx)
               [] tx.tx_type = "Withdrawal" -> WithdrawalArm(account, hist, tx)
               [] tx.tx_type = "Dispute"    -> DisputeArm(account, hist, tx)
               [] tx.tx_type = "Resolve"    -> ResolveArm(account, hist, tx)
               [] tx.tx_type = "Chargeback" -> ChargebackArm(account, hist, tx)
    IN  [accounts |-> [accs1 EXCEPT ![tx.client_id] = RecomputeTotal(r.account)],
         history  |-> r.history,
         ok       |-> r.ok,
         panic    |-> Overflowed(r.account)]

\* Balances of client c in an accounts map (those of Account::new when absent,
\* which is what add_transaction starts from for a client it has not seen).
Balances(accs, c) ==
    LET a == EntryOrInsert(accs, c)[c] IN <<a.available, a.held>>

\* History variable disputeSnap after applying tx (r is ApplyTransaction's result).
\* A snapshot is "open" from a successful Dispute for as long as neither the
\* record nor the disputing account's balances change; it is "resolved" or
\* "chargedback" in the state right after that same client's Resolve or
\* Chargeback on the tx_id succeeded, and dropped by the next call.
NextSnap(tx, r) ==
    [u \in TxIds |->
        LET s == disputeSnap[u] IN
        IF u = tx.tx_id /\ tx.tx_type = "Dispute" /\ r.ok
        THEN LET b == Balances(accounts, tx.client_id) IN
             [state |-> "open", client_id |-> tx.client_id,
              available |-> b[1], held |-> b[2], amount |-> history[u].amount]
        ELSE IF s.state = "open" /\ u = tx.tx_id /\ tx.client_id = s.client_id
                /\ tx.tx_type = "Resolve" /\ r.ok
        THEN [s EXCEPT !.state = "resolved"]
        ELSE IF s.state = "open" /\ u = tx.tx_id /\ tx.client_id = s.client_id
                /\ tx.tx_type = "Chargeback" /\ r.ok
        THEN [s EXCEPT !.state = "chargedback"]
        ELSE IF s.state # "open" THEN NoSnap
        ELSE IF \/ u \notin DOMAIN r.history
                \/ r.history[u] # history[u]
                \/ Balances(r.accounts, s.client_id) # Balances(accounts, s.client_id)
        THEN NoSnap
        ELSE s]

\* History variable depositor after applying tx.
NextDepositor(tx, r) ==
    [u \in TxIds |->
        IF u \notin DOMAIN r.history THEN 0
        ELSE IF u = tx.tx_id /\ tx.tx_type = "Deposit" THEN tx.client_id
        ELSE depositor[u]]

\* A panic unwinds the caller: the Engine value is dropped and nothing is
\* exported.
Panicked ==
    /\ phase' = "panicked"
    /\ accounts' = <<>>
    /\ history' = <<>>
    /\ steps' = 0
    /\ last' = NoLog
    /\ disputeSnap' = [u \in TxIds |-> NoSnap]
    /\ depositor' = [u \in TxIds |-> 0]
    /\ UNCHANGED <<exported, seen>>

\* One call of add_transaction on the engine.
EngineApply(tx) ==
    /\ phase = "open"
    /\ LET r == ApplyTransaction(accounts, history, tx) IN
        IF r.panic
        THEN Panicked
        ELSE /\ accounts' = r.accounts
             /\ history' = r.history
             /\ last' = [tx |-> tx, ok |-> r.ok]
             /\ disputeSnap' = NextSnap(tx, r)
             /\ depositor' = NextDepositor(tx, r)
             /\ seen' = IF tx.client_id \in DOMAIN accounts
                        THEN seen ELSE Append(seen, tx.client_id)
             /\ steps' = steps + 1
             /\ UNCHANGED <<phase, exported>>

AddTransaction(tx) ==
    /\ steps < MaxSteps
    /\ EngineApply(tx)
    /\ UNCHANGED pipeVars
    /\ UNCHANGED renderVars

----------------------------------------------------------------------------
(* Engine::get_accounts *)

\* All orders in which HashMap::into_values may yield the entries of m.
IterationOrders(m) ==
    LET n == Cardinality(DOMAIN m) IN
    {p \in [1..n -> DOMAIN m] : \A i, j \in 1..n : p[i] = p[j] => i = j}

\* get_accounts takes self by value: the accounts map is moved into the
\* returned Vec and the history map is dropped with the Engine, so no engine
\* state (nor any history variable about it) is left afterwards.
GetAccounts ==
    /\ phase = "open"
    /\ \E p \in IterationOrders(accounts) :
          exported' = [i \in DOMAIN p |-> accounts[p[i]]]
    /\ phase' = "exported"
    /\ accounts' = <<>>
    /\ history' = <<>>
    /\ steps' = 0
    /\ last' = NoLog
    /\ disputeSnap' = [u \in TxIds |-> NoSnap]
    /\ depositor' = [u \in TxIds |-> 0]
    /\ UNCHANGED seen
    /\ UNCHANGED pipeVars
    /\ UNCHANGED renderVars

----------------------------------------------------------------------------

EngineInit ==
    /\ accounts = EngineNew.accounts
    /\ history = EngineNew.history
    /\ phase = "open"
    /\ exported = <<>>
    /\ steps = 0
    /\ last = NoLog
    /\ seen = <<>>
    /\ disputeSnap = [u \in TxIds |-> NoSnap]
    /\ depositor = [u \in TxIds |-> 0]

\* The engine on its own: no file, no tasks, no channel.
Init ==
    /\ EngineInit
    /\ input = <<>>
    /\ pos = 1
    /\ producer = "idle"
    /\ channel = <<>>
    /\ sent = <<>>
    /\ applied = <<>>
    /\ value = NoDecimal
    /\ rendered = NoRender

Next ==
    \/ \E tx \in Transaction : AddTransaction(tx)
    \/ GetAccounts

Spec == Init /\ [][Next]_vars

\* The same engine fed zero and negative amounts as well.
NextSigned ==
    \/ \E tx \in SignedTransaction : AddTransaction(tx)
    \/ GetAccounts

SpecSigned == Init /\ [][NextSigned]_vars

\* The same engine fed amounts up to the largest representable Decimal.
NextLarge ==
    \/ \E tx \in LargeTransaction : AddTransaction(tx)
    \/ GetAccounts

SpecLarge == Init /\ [][NextLarge]_vars

\* The same engine fed zero amounts as well as positive ones.
NonNegativeAmounts == {0} \cup Amounts

NonNegativeTransaction == TransactionOver(NonNegativeAmounts)

NextNonNegative ==
    \/ \E tx \in NonNegativeTransaction : AddTransaction(tx)
    \/ GetAccounts

SpecNonNegative == Init /\ [][NextNonNegative]_vars

----------------------------------------------------------------------------
(* The pipeline of main: the file_input task parses the csv records and sends
   the transactions over a bounded channel; the consume task applies them to
   an engine of its own and exports the accounts when the channel is closed
   and empty. *)

\* Longest input file.
MaxInput == 3
\* Capacity of the channel, scaled down from the program's 100 so that an
\* input of MaxInput records can fill it.
BUFFER_SIZE == 2

\* The amount column of a record: text that is a decimal number, given in
\* units of 1e-5 (one digit more than PRECISION keeps), or text that is not.
Num(n) == [valid |-> TRUE, e5 |-> n]
NotANumber == [valid |-> FALSE, e5 |-> 0]

\* A csv record with the header's four columns.
Rec(type, field) == [type |-> type, client |-> 1, tx |-> 1, amount |-> field]

Records ==
    { Rec("deposit", Num(10)),
      Rec("deposit", Num(25)),
      Rec("deposit", Num(-10)),
      Rec("deposit", Num(DecimalMax * 10)),
      Rec("deposit", NotANumber),
      Rec("withdrawal", Num(10)),
      Rec("dispute", NotANumber),
      Rec("transfer", Num(10)) }

Inputs == UNION {[1..n -> Records] : n \in 0..MaxInput}

\* Decimal::from_str_exact: an error for text that is not a number or a
\* number that is not representable; no check of the sign.
FromStrExact(field) ==
    [ok    |-> field.valid /\ -(DecimalMax * 10) <= field.e5 /\ field.e5 <= DecimalMax * 10,
     value |-> field.e5]

\* Decimal::round_dp(PRECISION): from units of 1e-5 to units of 1e-4, a tie
\* going to the even neighbour.
RoundDp(n) ==
    LET a  == IF n < 0 THEN -n ELSE n
        q  == a \div 10
        r  == a % 10
        m  == IF r > 5 \/ (r = 5 /\ q % 2 = 1) THEN q + 1 ELSE q
    IN  IF n < 0 THEN -m ELSE m

\* deserialize_transaction_type: the amount is required, and rounded, for a
\* deposit and a withdrawal only.
DeserializeTransactionType(type, field) ==
    LET amount == FromStrExact(field) IN
    CASE type = "deposit" ->
            [ok |-> amount.ok, tx_type |-> "Deposit", amount |-> RoundDp(amount.value)]
      [] type = "withdrawal" ->
            [ok |-> amount.ok, tx_type |-> "Withdrawal", amount |-> RoundDp(amount.value)]
      [] type = "dispute" -> [ok |-> TRUE, tx_type |-> "Dispute", amount |-> 0]
      [] type = "resolve" -> [ok |-> TRUE, tx_type |-> "Resolve", amount |-> 0]
      [] type = "chargeback" -> [ok |-> TRUE, tx_type |-> "Chargeback", amount |-> 0]
      [] OTHER -> [ok |-> FALSE, tx_type |-> "None", amount |-> 0]

\* One item of reader.deserialize::<Transaction>().
ParseRecord(rec) ==
    LET t == DeserializeTransactionType(rec.type, rec.amount) IN
    [ok |-> t.ok,
     tx |-> [client_id |-> rec.client, tx_id |-> rec.tx,
             tx_type |-> t.tx_type, amount |-> t.amount]]

\* The transactions of the first n records of inp that parse, in file order.
RECURSIVE ParsedUpTo(_, _)
ParsedUpTo(inp, n) ==
    IF n = 0 THEN <<>>
    ELSE LET r == ParseRecord(inp[n]) IN
         IF r.ok THEN Append(ParsedUpTo(inp, n - 1), r.tx) ELSE ParsedUpTo(inp, n - 1)

\* The record fails to parse: it is logged and skipped.
ProducerSkip ==
    /\ producer = "running"
    /\ pos <= Len(input)
    /\ ~ParseRecord(input[pos]).ok
    /\ pos' = pos + 1
    /\ UNCHANGED <<input, producer, channel, sent, applied>>
    /\ UNCHANGED engineVars
    /\ UNCHANGED renderVars

\* The record parses and send() completes: the receiver is alive and the
\* channel has room (send waits while it is full).
ProducerSend ==
    /\ producer = "running"
    /\ pos <= Len(input)
    /\ ParseRecord(input[pos]).ok
    /\ phase = "open"
    /\ Len(channel) < BUFFER_SIZE
    /\ channel' = Append(channel, ParseRecord(input[pos]).tx)
    /\ sent' = Append(sent, ParseRecord(input[pos]).tx)
    /\ pos' = pos + 1
    /\ UNCHANGED <<input, producer, applied>>
    /\ UNCHANGED engineVars
    /\ UNCHANGED renderVars

\* The record parses and send() returns an error, the receiver being gone:
\* the loop is left.
ProducerSendError ==
    /\ producer = "running"
    /\ pos <= Len(input)
    /\ ParseRecord(input[pos]).ok
    /\ phase = "panicked"
    /\ producer' = "done"
    /\ UNCHANGED <<input, pos, channel, sent, applied>>
    /\ UNCHANGED engineVars
    /\ UNCHANGED renderVars

\* The reader is exhausted: the task ends and drops the sender.
ProducerEnd ==
    /\ producer = "running"
    /\ pos > Len(input)
    /\ producer' = "done"
    /\ UNCHANGED <<input, pos, channel, sent, applied>>
    /\ UNCHANGED engineVars
    /\ UNCHANGED renderVars

\* recv() yields a transaction and the engine applies it. A panic of
\* add_transaction ends the task and drops the receiver with what it holds.
Consume ==
    /\ producer # "idle"
    /\ channel # <<>>
    /\ EngineApply(Head(channel))
    /\ applied' = Append(applied, Head(channel))
    /\ channel' = IF phase' = "panicked" THEN <<>> ELSE Tail(channel)
    /\ UNCHANGED <<input, pos, producer, sent>>
    /\ UNCHANGED renderVars

\* recv() yields None, the channel being empty and the sender dropped: the
\* accounts are exported.
ConsumerExport ==
    /\ producer = "done"
    /\ channel = <<>>
    /\ GetAccounts

InitPipeline ==
    /\ EngineInit
    /\ input \in Inputs
    /\ pos = 1
    /\ producer = "running"
    /\ channel = <<>>
    /\ sent = <<>>
    /\ applied = <<>>
    /\ value = NoDecimal
    /\ rendered = NoRender

NextPipeline ==
    \/ ProducerSkip
    \/ ProducerSend
    \/ ProducerSendError
    \/ ProducerEnd
    \/ Consume
    \/ ConsumerExport

SpecPipeline == InitPipeline /\ [][NextPipeline]_vars

----------------------------------------------------------------------------
(* custom_serde::serialize_decimal, on Decimals given as the integer mantissa
   m and the scale: the number m / 10^scale. *)

PRECISION == 4
\* Largest mantissa (in absolute value) and largest scale of the Decimals rendered.
MaxMantissa == 12
MaxScale == 6

Decimals == [m : (-MaxMantissa)..MaxMantissa, scale : 0..MaxScale]

RECURSIVE Pow10(_)
Pow10(k) == IF k = 0 THEN 1 ELSE 10 * Pow10(k - 1)

Abs(n) == IF n < 0 THEN -n ELSE n

\* Decimal::round_dp(dp): a Decimal of scale dp or less is returned as it is;
\* otherwise the mantissa is rounded to scale dp, a tie going to the even
\* neighbour.
DecimalRoundDp(d, dp) ==
    IF d.scale <= dp THEN d
    ELSE LET p == Pow10(d.scale - dp)
             q == Abs(d.m) \div p
             r == Abs(d.m) % p
             n == IF 2 * r > p \/ (2 * r = p /\ q % 2 = 1) THEN q + 1 ELSE q
         IN  [m |-> IF d.m < 0 THEN -n ELSE n, scale |-> dp]

\* Decimal::set_scale: the scale is replaced and the mantissa kept.
SetScale(d, s) == [d EXCEPT !.scale = s]

\* Decimal::to_string: sign, integer part and exactly scale fractional digits.
DecimalToString(d) ==
    [neg  |-> d.m < 0,
     int  |-> Abs(d.m) \div Pow10(d.scale),
     frac |-> [i \in 1..d.scale |-> (Abs(d.m) \div Pow10(d.scale - i)) % 10]]

SerializeDecimal(v) ==
    LET rounded_value == DecimalRoundDp(v, PRECISION)
        shown == IF rounded_value.scale = 0 THEN SetScale(rounded_value, 1)
                 ELSE rounded_value
    IN  DecimalToString(shown)

\* The number a Decimal denotes, in units of 10^-PRECISION (scale <= PRECISION).
UnitsOf(d) == d.m * Pow10(PRECISION - d.scale)

\* The number a rendered string denotes, in units of 10^-PRECISION.
RECURSIVE FracUnits(_, _)
FracUnits(frac, i) ==
    IF i > Len(frac) THEN 0
    ELSE frac[i] * Pow10(PRECISION - i) + FracUnits(frac, i + 1)

Denotes(str) ==
    LET a == str.int * Pow10(PRECISION) + FracUnits(str.frac, 1)
    IN  IF str.neg THEN -a ELSE a

\* The serializer is handed the rendering of value.
Render ==
    /\ rendered = NoRender
    /\ rendered' = SerializeDecimal(value)
    /\ UNCHANGED value
    /\ UNCHANGED engineVars
    /\ UNCHANGED pipeVars

InitRender ==
    /\ EngineInit
    /\ input = <<>>
    /\ pos = 1
    /\ producer = "idle"
    /\ channel = <<>>
    /\ sent = <<>>
    /\ applied = <<>>
    /\ value \in Decimals
    /\ rendered = NoRender

NextRender == Render

SpecRender == InitRender /\ [][NextRender]_vars

----------------------------------------------------------------------------
(* Helpers for stating the properties *)

\* The account add_transaction works on for client c: the stored one, or the
\* fresh Account::new(c) that entry().or_insert() puts in the map.
AccountOf(accs, c) == EntryOrInsert(accs, c)[c]

\* Status of the history record of tx_id t: "absent", "Regular" or "UnderDispute".
RecordStatus(hist, t) == IF t \in DOMAIN hist THEN hist[t].info ELSE "absent"

\* The step just taken was an add_transaction call.
Applied == steps' = steps + 1

\* Every account that existed before the step has all its fields unchanged.
AccountsUntouched == \A c \in DOMAIN accounts : accounts'[c] = accounts[c]

\* The call changed nothing: every existing account, the account the call
\* worked on and the history map are as before.
NoEffect(tx) ==
    /\ AccountsUntouched
    /\ accounts'[tx.client_id] = AccountOf(accounts, tx.client_id)
    /\ history' = history

----------------------------------------------------------------------------
(* C1: in every reachable state every account in the accounts map has
   total = available + held. *)
C1_TotalIsAvailablePlusHeld ==
    \A c \in DOMAIN accounts :
        accounts[c].total = accounts[c].available + accounts[c].held

\* An account with funds both available and held, right after a rejected call
\* on it.
C1_Witness ==
    /\ last.tx.tx_type \in TransactionType
    /\ ~last.ok
    /\ accounts[last.tx.client_id].available > 0
    /\ accounts[last.tx.client_id].held > 0

(* C2: get_accounts returns exactly one Account per client referenced by an
   applied transaction, in first-seen order. *)
C2_ExportFirstSeenOrder ==
    phase = "exported" =>
        /\ Len(exported) = Len(seen)
        /\ \A i \in 1..Len(exported) : exported[i].client_id = seen[i]

(* C3: the status of the history record of every tx_id changes only along
   absent -> Regular (on Deposit), Regular -> UnderDispute (on a successful
   Dispute), UnderDispute -> absent (on Resolve or Chargeback); in particular
   never from UnderDispute to Regular. *)
C3_RecordLifecycle ==
    [][Applied =>
         \A t \in TxIds :
            LET old == RecordStatus(history, t)
                new == RecordStatus(history', t)
            IN  old # new =>
                  /\ last'.tx.tx_id = t
                  /\ \/ old = "absent" /\ new = "Regular" /\ last'.tx.tx_type = "Deposit"
                     \/ old = "Regular" /\ new = "UnderDispute"
                          /\ last'.tx.tx_type = "Dispute" /\ last'.ok
                     \/ old = "UnderDispute" /\ new = "absent"
                          /\ last'.tx.tx_type \in {"Resolve", "Chargeback"}]_vars

(* C4: Withdrawal(amt) succeeds iff available >= amt when it is applied; on
   success available decreases by exactly amt and held, locked and the history
   map are unchanged; when amt > available nothing changes. *)
C4_WithdrawalGating ==
    [][(Applied /\ last'.tx.tx_type = "Withdrawal") =>
         LET tx   == last'.tx
             pre  == AccountOf(accounts, tx.client_id)
             post == accounts'[tx.client_id]
         IN  /\ last'.ok <=> (pre.available >= tx.amount)
             /\ pre.available >= tx.amount =>
                  /\ post.available = pre.available - tx.amount
                  /\ post.held = pre.held
                  /\ post.locked = pre.locked
                  /\ history' = history
             /\ tx.amount > pre.available => NoEffect(tx)]_vars

\* A withdrawal has just taken the available funds of an account that also
\* holds disputed funds.
C4_Witness ==
    /\ last.tx.tx_type = "Withdrawal"
    /\ last.ok
    /\ last.tx.amount > 0
    /\ accounts[last.tx.client_id].held > 0

(* C5: a Dispute on a tx_id whose record is Regular with amount a succeeds iff
   the account's available >= a; on success available decreases by a, held
   increases by a, total is unchanged and the record becomes UnderDispute;
   when available < a balances, locked and the record's status are unchanged. *)
C5_DisputeGating ==
    [][(/\ Applied
        /\ last'.tx.tx_type = "Dispute"
        /\ RecordStatus(history, last'.tx.tx_id) = "Regular") =>
         LET tx   == last'.tx
             a    == history[tx.tx_id].amount
             pre  == AccountOf(accounts, tx.client_id)
             post == accounts'[tx.client_id]
         IN  /\ last'.ok <=> (pre.available >= a)
             /\ pre.available >= a =>
                  /\ post.available = pre.available - a
                  /\ post.held = pre.held + a
                  /\ post.total = pre.total
                  /\ post.locked = pre.locked
                  /\ history'[tx.tx_id] = [info |-> "UnderDispute", amount |-> a]
             /\ pre.available < a => NoEffect(tx)]_vars

\* A dispute of a positive deposit has just succeeded.
C5_Witness ==
    /\ last.tx.tx_type = "Dispute"
    /\ last.ok
    /\ last.tx.tx_id \in DOMAIN history
    /\ history[last.tx.tx_id].info = "UnderDispute"
    /\ history[last.tx.tx_id].amount > 0
    /\ accounts[last.tx.client_id].held > 0

(* C6: a successful Dispute followed by a Resolve on the same tx_id (with only
   calls in between that change neither the record nor the account's
   balances) restores the account's available and held to their values before
   the dispute and removes the history record. *)
C6_DisputeResolveRestores ==
    \A t \in TxIds :
        disputeSnap[t].state = "resolved" =>
            LET s == disputeSnap[t] IN
            /\ accounts[s.client_id].available = s.available
            /\ accounts[s.client_id].held = s.held
            /\ t \notin DOMAIN history

\* A dispute of a positive deposit was resolved by the call just made, on an
\* account that had other funds available.
C6_Witness ==
    \E t \in TxIds :
        /\ disputeSnap[t].state = "resolved"
        /\ disputeSnap[t].amount > 0
        /\ disputeSnap[t].available > disputeSnap[t].amount
        /\ last.tx.tx_type = "Resolve" /\ last.ok /\ last.tx.tx_id = t

(* C7: a successful Dispute followed by a Chargeback on the same tx_id leaves
   held back at its pre-dispute value, sets locked, leaves available as it
   was after the dispute (pre-dispute available minus the disputed amount)
   and removes the history record. *)
C7_DisputeChargeback ==
    \A t \in TxIds :
        disputeSnap[t].state = "chargedback" =>
            LET s == disputeSnap[t] IN
            /\ accounts[s.client_id].held = s.held
            /\ accounts[s.client_id].available = s.available - s.amount
            /\ accounts[s.client_id].locked
            /\ t \notin DOMAIN history

\* A dispute of a positive deposit was charged back by the call just made, on
\* an account that had other funds available.
C7_Witness ==
    \E t \in TxIds :
        /\ disputeSnap[t].state = "chargedback"
        /\ disputeSnap[t].amount > 0
        /\ disputeSnap[t].available > disputeSnap[t].amount
        /\ last.tx.tx_type = "Chargeback" /\ last.ok /\ last.tx.tx_id = t

(* C8: a Dispute, Resolve or Chargeback whose tx_id has no history record
   leaves every field of every account and the history map unchanged. *)
C8_UnknownTxIsNoOp ==
    [][(/\ Applied
        /\ last'.tx.tx_type \in {"Dispute", "Resolve", "Chargeback"}
        /\ last'.tx.tx_id \notin DOMAIN history) => NoEffect(last'.tx)]_vars

\* A Chargeback has just been applied to a tx_id without a record, on an
\* unlocked account that has funds.
C8_Witness ==
    /\ last.tx.tx_type = "Chargeback"
    /\ last.tx.tx_id \notin DOMAIN history
    /\ accounts[last.tx.client_id].available > 0
    /\ ~accounts[last.tx.client_id].locked

(* C9: a second Dispute on an UnderDispute record, and a Resolve or Chargeback
   on a Regular record, change no balance, do not set locked, and leave the
   record's status and amount as they were. *)
C9_WrongStateIsNoOp ==
    [][(/\ Applied
        /\ \/ /\ last'.tx.tx_type = "Dispute"
              /\ RecordStatus(history, last'.tx.tx_id) = "UnderDispute"
           \/ /\ last'.tx.tx_type \in {"Resolve", "Chargeback"}
              /\ RecordStatus(history, last'.tx.tx_id) = "Regular") =>
         NoEffect(last'.tx)]_vars

\* A Chargeback has just been applied to a Regular record of a positive
\* deposit, on an account holding those funds.
C9_Witness ==
    /\ last.tx.tx_type = "Chargeback"
    /\ RecordStatus(history, last.tx.tx_id) = "Regular"
    /\ history[last.tx.tx_id].amount > 0
    /\ accounts[last.tx.client_id].available > 0

(* C10: locked is a one-way latch: an account is created unlocked, locked
   becomes true only by a successful Chargeback applied to that account, and
   once true it stays true. *)
C10_LockedLatch ==
    [][Applied =>
         \A c \in Clients :
            LET wasLocked == c \in DOMAIN accounts /\ accounts[c].locked
                isLocked  == c \in DOMAIN accounts' /\ accounts'[c].locked
            IN  /\ wasLocked => isLocked
                /\ (~wasLocked /\ isLocked) =>
                     /\ last'.tx.tx_type = "Chargeback"
                     /\ last'.ok
                     /\ last'.tx.client_id = c]_vars

\* A locked account right after a further successful call on it that is not
\* a Chargeback.
C10_Witness ==
    /\ last.tx.tx_type \in {"Deposit", "Withdrawal", "Dispute", "Resolve"}
    /\ last.ok
    /\ accounts[last.tx.client_id].locked

----------------------------------------------------------------------------
(* C11: a call that fails its arm's check leaves the whole engine state as it
   was: every account, the history map and the set of clients that have an
   account. *)
C11_RejectedLeavesStateUnchanged ==
    [][(Applied /\ ~last'.ok) =>
         /\ accounts' = accounts
         /\ DOMAIN accounts' = DOMAIN accounts
         /\ history' = history]_vars

----------------------------------------------------------------------------
(* C12: the locked flag gates nothing. A call on a locked account has exactly
   the outcome it has on the same account unlocked: a Deposit raises available
   by its amount, a Withdrawal is decided by the sufficiency check alone, and
   Dispute, Resolve and Chargeback by the history record (and, for Dispute,
   the sufficiency check) alone. *)
C12_LockedDoesNotGate ==
    [][Applied =>
         LET tx == last'.tx
             c  == tx.client_id
         IN  (c \in DOMAIN accounts /\ accounts[c].locked) =>
                LET unlocked == [accounts EXCEPT ![c].locked = FALSE]
                    r == ApplyTransaction(unlocked, history, tx)
                IN  /\ Balances(accounts', c) = Balances(r.accounts, c)
                    /\ accounts'[c].total = r.accounts[c].total
                    /\ history' = r.history
                    /\ last'.ok = r.ok
                    /\ tx.tx_type = "Deposit" =>
                          /\ last'.ok
                          /\ accounts'[c].available = accounts[c].available + tx.amount
                    /\ tx.tx_type = "Withdrawal" =>
                          /\ last'.ok = (accounts[c].available >= tx.amount)
                          /\ last'.ok =>
                                accounts'[c].available = accounts[c].available - tx.amount]_vars

\* A locked account right after a Deposit on it was credited.
C12_Witness ==
    /\ last.tx.tx_type = "Deposit"
    /\ last.ok
    /\ accounts[last.tx.client_id].locked
    /\ accounts[last.tx.client_id].available >= last.tx.amount
    /\ last.tx.amount > 0

----------------------------------------------------------------------------
(* C18: a Dispute, Resolve or Chargeback naming a tx_id changes no account
   other than that of the client whose Deposit recorded the tx_id: sent with
   another client_id it changes nothing. *)
C18_OnlyDepositorAffected ==
    [][Applied =>
         LET tx == last'.tx IN
         (/\ tx.tx_type \in {"Dispute", "Resolve", "Chargeback"}
          /\ depositor[tx.tx_id] # tx.client_id) => NoEffect(tx)]_vars

----------------------------------------------------------------------------
(* C19: with non-negative amounts, held is never negative in any account,
   whatever is sent: repeated tx_ids and calls whose client_id is not the
   depositing client included. *)
C19_HeldNonNegative ==
    \A c \in DOMAIN accounts : accounts[c].held >= 0

----------------------------------------------------------------------------
\* Sum of held over the accounts of the clients in cs.
RECURSIVE SumHeld(_, _)
SumHeld(accs, cs) ==
    IF cs = {} THEN 0
    ELSE LET c == CHOOSE x \in cs : TRUE
         IN  accs[c].held + SumHeld(accs, cs \ {c})

\* Sum of the amounts of the UnderDispute records among the tx_ids in ts.
RECURSIVE SumUnderDispute(_, _)
SumUnderDispute(hist, ts) ==
    IF ts = {} THEN 0
    ELSE LET t == CHOOSE x \in ts : TRUE
         IN  (IF hist[t].info = "UnderDispute" THEN hist[t].amount ELSE 0)
             + SumUnderDispute(hist, ts \ {t})

(* C20: in every reachable state the sum of held over all accounts equals the
   sum of the amounts of the history records in state UnderDispute, a Deposit
   that reuses a tx_id included. *)
C20_HeldMatchesUnderDispute ==
    SumHeld(accounts, DOMAIN accounts) = SumUnderDispute(history, DOMAIN history)

----------------------------------------------------------------------------
(* C13: add_transaction never fails: in every reachable engine state, for
   every Transaction with a representable amount, the call completes without
   a panic. *)
C13_AddTransactionNeverPanics ==
    phase # "panicked"

----------------------------------------------------------------------------
(* C14: the transactions the engine is given are exactly the records of the
   input that parse, in file order: at every moment a prefix of them, and all
   of them once both tasks have ended. *)
C14_AppliedIsParsedSubsequence ==
    LET parsed == ParsedUpTo(input, Len(input)) IN
    /\ Len(applied) <= Len(parsed)
    /\ \A i \in DOMAIN applied : applied[i] = parsed[i]
    /\ (producer = "done" /\ phase # "open") => applied = parsed

----------------------------------------------------------------------------
\* The producer's step on a record that parses while the receiver is gone:
\* its send() returns an error.
SendFails ==
    /\ producer = "running"
    /\ pos <= Len(input)
    /\ ParseRecord(input[pos]).ok
    /\ phase = "panicked"
    /\ <<pos, producer>>' # <<pos, producer>>

(* C15: when send returns an error, only that record is dropped: the producer
   loop goes on with the next record of the input. *)
C15_SendErrorContinues ==
    [][SendFails => (producer' = "running" /\ pos' = pos + 1)]_vars

----------------------------------------------------------------------------
(* C16: when both tasks have ended the accounts have been exported, and the
   export happens only after the producer has ended, the channel is drained
   and every transaction that was sent has been applied. *)
C16_ExportedOnceAfterAllApplied ==
    /\ (producer = "done" /\ phase # "open") => (phase = "exported" /\ applied = sent)
    /\ phase = "exported" => (producer = "done" /\ channel = <<>> /\ applied = sent)

----------------------------------------------------------------------------
(* C17: every Deposit or Withdrawal that reaches add_transaction has a
   non-negative amount. *)
C17_AppliedAmountsNonNegative ==
    \A i \in DOMAIN applied :
        applied[i].tx_type \in {"Deposit", "Withdrawal"} => applied[i].amount >= 0

----------------------------------------------------------------------------
(* C21: with non-negative Deposit/Withdrawal amounts, available >= 0 in every
   account in every reachable state. *)
C21_AvailableNonNegative ==
    \A c \in DOMAIN accounts : accounts[c].available >= 0

\* A Withdrawal or a Dispute has just taken the last available funds of an
\* account.
C21_Witness ==
    /\ last.tx.tx_type \in {"Withdrawal", "Dispute"}
    /\ last.ok
    /\ accounts[last.tx.client_id].available = 0
    /\ accounts[last.tx.client_id].total + last.tx.amount > 0

----------------------------------------------------------------------------
(* C22: add_transaction(tx) changes no field of the account of any client
   other than tx.client_id, and creates no account for any other client. *)
C22_OtherAccountsUnchanged ==
    [][Applied =>
         \A c \in Clients \ {last'.tx.client_id} :
            IF c \in DOMAIN accounts
            THEN c \in DOMAIN accounts' /\ accounts'[c] = accounts[c]
            ELSE c \notin DOMAIN accounts']_vars

\* A call has just changed the balances of one client while another client
\* has an account with funds.
C22_Witness ==
    /\ last.ok
    /\ last.tx.tx_type \in {"Withdrawal", "Dispute", "Resolve", "Chargeback"}
    /\ \E c \in DOMAIN accounts :
          /\ c # last.tx.client_id
          /\ accounts[c].total > 0

----------------------------------------------------------------------------
(* C23: the string serialize_decimal renders denotes the value rounded to 4
   fractional digits and shows at least one fractional digit; a whole number
   n stored with scale 0 renders as "n.0". *)
C23_RenderedDenotesRoundedValue ==
    rendered # NoRender =>
        /\ Denotes(rendered) = UnitsOf(DecimalRoundDp(value, PRECISION))
        /\ Len(rendered.frac) >= 1
        /\ value.scale = 0 =>
              /\ rendered.int = Abs(value.m)
              /\ rendered.frac = <<0>>

====
